---- MODULE Spec2Model ----
(***************************************************************************)
(* Verification development of proof-of-sql-verifier.                      *)
(*                                                                         *)
(* Spec     the verification engine (verify_proof_internal, verify.rs;     *)
(*          the same body is verify_proof of verify_generic.rs), run step  *)
(*          by step on one (proof, plan, commitments, query data)          *)
(* SpecKey  VerificationKey::try_from on a byte buffer                     *)
(*          (verification_key.rs)                                          *)
(* SpecKeyEnc  VerificationKey::to_bytes (verification_key.rs)             *)
(* SpecPubs    DoryPublicInput::into_bytes and try_from (pubs.rs): a       *)
(*          bundle encoded and decoded, or a given buffer decoded          *)
(* SpecVerify  verify on three byte buffers (dory.rs): the three decoders, *)
(*          then the engine                                                *)
(* SpecRepeat  the engine called twice on the same arguments               *)
(* SpecConcurrent  up to MaxCalls calls of verify_dory_proof on one shared *)
(*          key, their steps interleaved                                   *)
(* SpecNew  DoryPublicInput::new (pubs.rs): the plan serialized and built  *)
(*          again, and the caller's plan afterwards                        *)
(* SpecKeyRoundTrip  to_bytes, then try_from on the bytes written          *)
(***************************************************************************)
EXTENDS Integers, Sequences, FiniteSets, TLC

\* ------------------------------------------------------------------ bounds
\* column references of a plan
MaxRefs == 2
\* sizing parameter of a verification key
MaxNu == 2
\* bytes cut from, or added to, the end of a key encoding
MaxSlack == 2
\* the sigma stored in a verification key
MaxSigma == 2
\* column entries of an encoded result table
MaxCols == 2
\* verification calls running at the same time
MaxCalls == 2

\* ---------------------------------------------------------------- universe
\* table and column names of tests/integration.rs (build_accessor,
\* build_alien_accessor)
TableRefs == {"sxt.table", "sxt.table2"}
ColumnIds == {"a", "b"}
ColumnTypes == {"BigInt", "VarChar"}
\* the content a column commitment binds to: the original table or the
\* altered one (build_altered_accessor)
ColumnData == {"world", "zkVerify"}

\* result tables of the two test queries and a tampered one: no column, or
\* the varchar column b
OwnedTables ==
    {<<>>,
     <<[id |-> "b", col |-> [tag |-> "VarChar", a |-> "", b |-> "",
                             values |-> <<"hello", "world">>]]>>,
     <<[id |-> "b", col |-> [tag |-> "VarChar", a |-> "", b |-> "",
                             values |-> <<"hello", "zkVerify">>]]>>}
VerificationHashes == {"h0", "h1"}
QueryData == [table : OwnedTables, verification_hash : VerificationHashes]

\* the column type the plan expects: bigint("a"), varchar("b")
ExpectedType(column_id) == IF column_id = "a" THEN "BigInt" ELSE "VarChar"

ColumnRef == {[table_ref |-> t, column_id |-> c, column_type |-> ExpectedType(c)] :
                  t \in TableRefs, c \in ColumnIds}

\* get_column_references(): the distinct column references of a plan, in
\* iteration order
IsPlan(s) == \A p, q \in 1..Len(s) : p # q => s[p] # s[q]
Plans == {s \in UNION {[1..n -> ColumnRef] : n \in 0..MaxRefs} : IsPlan(s)}

ColumnCommitmentMetadata == [column_type : ColumnTypes, data : ColumnData]
TableCommitment == UNION {[C -> ColumnCommitmentMetadata] : C \in SUBSET ColumnIds}
QueryCommitments == UNION {[T -> TableCommitment] : T \in SUBSET TableRefs}

\* a proof: whether it is a well-formed proof at all, and the column content
\* it was generated against
Proofs == [valid : BOOLEAN, data : ColumnData]

VerifyError == {"InvalidInput", "InvalidProofData", "VerificationFailed",
                "InvalidVerificationKey"}
None == "None"
Ok == "Ok"

\* the failures the external verifier can report
QueryErrors == {"ProofError", "Overflow"}

VARIABLES
    expr,             \* the plan: its column references
    commitments,      \* the commitment map
    query_data,       \* the claimed query data of the bundle
    proof,            \* the proof
    pc,               \* position in verify_proof_internal
    column,           \* index of the for loop over the column references
    passed,           \* the references for which the loop body ran to its end
    verifier_outcome, \* what proof.verify returned, kind "none" before the call
    compared,         \* the comparison of line 70 was evaluated
    result,           \* the value returned by verify_proof_internal
    key_bytes,        \* the buffer given to VerificationKey::try_from
    key_pc,           \* position in VerificationKey::try_from
    key_field,        \* index of the next field the deserializer reads
    key_cursor,       \* bytes of the buffer consumed so far
    key_decompressed, \* a point of the buffer has been decompressed
    key_result,       \* the value returned by VerificationKey::try_from
    key_content,      \* the values of the fields encoded in the buffer
    key_read,         \* the values of the fields read so far
    enc_key,          \* the key given to VerificationKey::to_bytes
    enc_pc,           \* position in VerificationKey::to_bytes
    enc_field,        \* index of the next field the serializer writes
    enc_len,          \* bytes written to buf so far
    enc_buf,          \* the values of the fields written to buf so far
    bundle,           \* the bundle given to DoryPublicInput::into_bytes
    into_result,      \* Ok or the error returned by into_bytes
    pub_bytes,        \* the buffer given to DoryPublicInput::try_from
    pub_pc,           \* position in into_bytes / from_bytes
    pub_cursor,       \* values of the buffer consumed so far
    pub_expr,         \* the plan read from the buffer
    pub_commitments,  \* the commitments read from the buffer
    table_len,        \* the declared column count read from the buffer
    vector,           \* the column entries decoded so far
    iterations,       \* how many times the body of the while loop was entered
    pub_table,        \* the table built from vector
    pub_result,       \* the value returned by DoryPublicInput::try_from
    pub_bundle,       \* the bundle returned with Ok
    proof_bytes,      \* the buffer given to DoryProof::try_from
    verify_pc,        \* position in verify of dory.rs
    stages,           \* the steps verify has entered, in order
    verify_result,    \* the value returned by verify
    vk,               \* the key given to verify_dory_proof
    call,             \* which call of verify_dory_proof is running, 0 for none
    given,            \* the proof, bundle and key as they were before the first call
    first_outcome,    \* what proof.verify returned in the first call
    first_result,     \* the value returned by the first call
    calls,            \* the calls of verify_dory_proof running at the same time:
                      \* for each its arguments, position and local values
    heap,             \* the plan objects: the caller's at CallerPlan, the bundle's
    new_pc,           \* position in DoryPublicInput::new
    plan_bytes,       \* bytes of line 73
    stored_expr,      \* where the plan of the bundle is, 0 before construction
    plan_at_new       \* the caller's plan when new was called

inputs == <<expr, commitments, query_data, proof>>

engine_vars == <<expr, commitments, query_data, proof, pc, column, passed,
                 verifier_outcome, compared, result>>

key_vars == <<key_bytes, key_pc, key_field, key_cursor, key_decompressed,
              key_result, key_content, key_read>>

enc_vars == <<enc_key, enc_pc, enc_field, enc_len, enc_buf>>

pubs_vars == <<bundle, into_result, pub_bytes, pub_pc, pub_cursor, pub_expr,
               pub_commitments, table_len, vector, iterations, pub_table,
               pub_result, pub_bundle>>

verify_vars == <<proof_bytes, verify_pc, stages, verify_result>>

repeat_vars == <<vk, call, given, first_outcome, first_result>>

new_vars == <<heap, new_pc, plan_bytes, stored_expr, plan_at_new>>

vars == <<engine_vars, key_vars, enc_vars, pubs_vars, verify_vars, repeat_vars, calls,
          new_vars>>

\* what the engine leaves alone, and what the key decoder leaves alone
outside_engine == <<key_vars, enc_vars, pubs_vars, verify_vars, repeat_vars,
                   calls, new_vars>>
outside_key == <<engine_vars, enc_vars, pubs_vars, verify_vars, repeat_vars,
                   calls, new_vars>>
outside_enc == <<engine_vars, key_vars, pubs_vars, verify_vars, repeat_vars,
                   calls, new_vars>>
outside_pubs == <<engine_vars, key_vars, enc_vars, verify_vars, repeat_vars,
                   calls, new_vars>>

\* ------------------------------------------------------------ verify.rs
\* the body of the for loop, lines 52-63: TRUE when the iteration does not
\* return an error
\* as cross_check, without the comparison of the column types
cross_check_untyped(col, comms) == col.table_ref \in DOMAIN comms

\* as cross_check, skipping a reference whose table is not in the map
cross_check_skip_unknown(col, comms) ==
    IF col.table_ref \in DOMAIN comms
    THEN IF col.column_id \in DOMAIN comms[col.table_ref]
         THEN comms[col.table_ref][col.column_id].column_type = col.column_type
         ELSE TRUE
    ELSE TRUE

cross_check(col, comms) ==
    IF col.table_ref \in DOMAIN comms
    THEN IF col.column_id \in DOMAIN comms[col.table_ref]
         THEN comms[col.table_ref][col.column_id].column_type = col.column_type
         ELSE TRUE
    ELSE FALSE

\* as map_err, with another error kind
map_err_proof_data(e) == "InvalidProofData"

map_err_input(e) == "InvalidInput"

\* line 68: .map_err(|_| VerifyError::VerificationFailed)
map_err(e) == "VerificationFailed"

\* as result_equal, with && in the place of ||
result_equal_either(computed, claimed) ==
    ~(computed.table # claimed.table
        /\ computed.verification_hash # claimed.verification_hash)

\* as result_equal, without the comparison of the hashes
result_equal_table_only(computed, claimed) == computed.table = claimed.table

\* line 70: the negation of
\* result.table != query_data.table || result.verification_hash != ...
result_equal(computed, claimed) ==
    ~(computed.table # claimed.table
        \/ computed.verification_hash # claimed.verification_hash)

\* ------------------------------------------------- the external verifier
\* every referenced column has a commitment in the map
HasCommitment(col, comms) ==
    /\ col.table_ref \in DOMAIN comms
    /\ col.column_id \in DOMAIN comms[col.table_ref]

AllCommitted(plan, comms) == \A k \in 1..Len(plan) : HasCommitment(plan[k], comms)

\* the commitments bind the content the proof was generated against
Binds(prf, plan, comms) ==
    \A k \in 1..Len(plan) :
        comms[plan[k].table_ref][plan[k].column_id].data = prf.data

\* proof.verify(expr, commitments, setup): the outcomes of the call
CryptoVerify(prf, plan, comms) ==
    IF ~AllCommitted(plan, comms)
    THEN {[kind |-> "crash"]} \cup {[kind |-> "err", error |-> e] : e \in QueryErrors}
    ELSE IF prf.valid /\ Binds(prf, plan, comms)
    THEN {[kind |-> "ok", value |-> r] : r \in QueryData}
    ELSE {[kind |-> "err", error |-> e] : e \in QueryErrors}

\* --------------------------------------------------- verification_key.rs
GT_SERIALIZED_SIZE == 576
G1_AFFINE_SERIALIZED_SIZE == 48
G2_AFFINE_SERIALIZED_SIZE == 96
\* size_of::<usize>()
USIZE_SIZE == 8

\* as serialized_size, with max_nu elements in each vector
serialized_size_short(max_nu) ==
    5 * (USIZE_SIZE + max_nu * GT_SERIALIZED_SIZE)
    + 2 * G1_AFFINE_SERIALIZED_SIZE
    + 3 * G2_AFFINE_SERIALIZED_SIZE
    + GT_SERIALIZED_SIZE
    + 2 * USIZE_SIZE

\* VerificationKey::serialized_size
serialized_size(max_nu) ==
    5 * (USIZE_SIZE + (max_nu + 1) * GT_SERIALIZED_SIZE)
    + 2 * G1_AFFINE_SERIALIZED_SIZE
    + 3 * G2_AFFINE_SERIALIZED_SIZE
    + GT_SERIALIZED_SIZE
    + 2 * USIZE_SIZE

Word(name) == <<[name |-> name, size |-> USIZE_SIZE, point |-> FALSE]>>
Gt(name) == <<[name |-> name, size |-> GT_SERIALIZED_SIZE, point |-> TRUE]>>
G1(name) == <<[name |-> name, size |-> G1_AFFINE_SERIALIZED_SIZE, point |-> TRUE]>>
G2(name) == <<[name |-> name, size |-> G2_AFFINE_SERIALIZED_SIZE, point |-> TRUE]>>

\* a vector of max_nu + 1 elements of GT: its length, then the elements
GtVec(name, max_nu) ==
    Word(name) \o [i \in 1..(max_nu + 1) |-> Gt(name)[1]]

\* the fields of a serialized key, in the order they are written and read
KeyLayout(max_nu) ==
    GtVec("Delta_1L", max_nu) \o GtVec("Delta_1R", max_nu)
    \o GtVec("Delta_2L", max_nu) \o GtVec("Delta_2R", max_nu)
    \o GtVec("chi", max_nu)
    \o G1("Gamma_1_0") \o G1("H_1")
    \o G2("Gamma_2_0") \o G2("H_2") \o G2("Gamma_2_fin")
    \o Gt("H_T")
    \o Word("max_nu") \o Word("sigma")

RECURSIVE SizeOfFields(_, _)
\* the bytes taken by the first k fields
SizeOfFields(layout, k) ==
    IF k = 0 THEN 0 ELSE SizeOfFields(layout, k - 1) + layout[k].size

\* the buffers given to try_from: the encoding of a key of sizing parameter
\* max_nu, cut after len bytes or followed by other bytes up to len, with
\* valid points or not
KeyLengths(max_nu) ==
    {0}
    \cup {SizeOfFields(KeyLayout(max_nu), k) : k \in 1..Len(KeyLayout(max_nu))}
    \cup {serialized_size(max_nu) + d : d \in (0 - MaxSlack)..MaxSlack}

KeyBuffers ==
    UNION {{[max_nu |-> n, len |-> l, points_valid |-> v] :
                l \in KeyLengths(n), v \in BOOLEAN} : n \in 0..MaxNu}

\* line 52: .map_err(|_| VerifyError::InvalidVerificationKey)
key_map_err(e) == "InvalidVerificationKey"

\* the value of field k of the encoding of a key: the length of a vector,
\* max_nu, sigma, or the k-th group element of the setup
FieldValue(key, k) ==
    LET f == KeyLayout(key.max_nu)[k]
    IN  IF f.name = "max_nu" THEN key.max_nu
        ELSE IF f.name = "sigma" THEN key.sigma
        ELSE IF ~f.point THEN key.max_nu + 1
        ELSE k

\* the values of the fields of the encoding of a key
KeyValues(key) == [k \in 1..Len(KeyLayout(key.max_nu)) |-> FieldValue(key, k)]

\* lines 31-36: the setup of a key is every field but the last, sigma
VerifierSetupOf(key) == SubSeq(KeyValues(key), 1, Len(KeyValues(key)) - 1)

\* the key deserialize_compressed_unchecked builds from the fields it read
DecodedKey(read) ==
    [setup |-> SubSeq(read, 1, Len(read) - 1), sigma |-> read[Len(read)]]

\* VerificationKey::new(params, sigma), params of sizing parameter max_nu
VerificationKeys == [max_nu : 0..MaxNu, sigma : 0..MaxSigma]

KeyDecoderIdle ==
    /\ key_bytes = [max_nu |-> 0, len |-> 0, points_valid |-> TRUE]
    /\ key_pc = "idle"
    /\ key_field = 1
    /\ key_cursor = 0
    /\ key_decompressed = FALSE
    /\ key_result = None
    /\ key_content = <<>>
    /\ key_read = <<>>

KeyEncoderIdle ==
    /\ enc_key = [max_nu |-> 0, sigma |-> 0]
    /\ enc_pc = "idle"
    /\ enc_field = 1
    /\ enc_len = 0
    /\ enc_buf = <<>>

KeyIdle ==
    /\ KeyDecoderIdle
    /\ KeyEncoderIdle

EngineIdle ==
    /\ expr = <<>>
    /\ commitments = <<>>
    /\ query_data = [table |-> <<>>, verification_hash |-> "h0"]
    /\ proof = [valid |-> TRUE, data |-> "world"]
    /\ pc = "idle"
    /\ column = 1
    /\ passed = {}
    /\ verifier_outcome = [kind |-> "none"]
    /\ compared = FALSE
    /\ result = None

\* ---------------------------------------------------------------- pubs.rs
\* identifiers that Identifier::try_new accepts, and one it refuses
Identifiers == {"a", "b"}
BadIdentifier == ""

\* ColumnType: the variants without parameters, Decimal75(precision, scale)
\* and TimestampTZ(unit, zone)
SimpleTags == {"Boolean", "SmallInt", "Int", "BigInt", "VarChar", "Int128", "Scalar"}
DecimalParams == {<<"10", "0">>, <<"12", "2">>}
TimestampParams == {<<"Second", "Utc">>, <<"Millisecond", "FixedOffset">>}
\* a variant index that is none of ColumnType, and a variant of OwnedColumn
\* that is none of the nine into_bytes matches
UnknownTag == "Unknown"
OtherVariant == "Other"

ColumnTypeOf(tag, a, b) == [tag |-> tag, a |-> a, b |-> b]

\* OwnedColumn<DoryScalar>: the variant, its parameters, its values
OwnedColumnOf(tag, a, b, values) == [tag |-> tag, a |-> a, b |-> b, values |-> values]

\* OwnedColumn::column_type
column_type(col) == ColumnTypeOf(col.tag, col.a, col.b)

ParamsOf(tag) ==
    IF tag = "Decimal75" THEN DecimalParams
    ELSE IF tag = "TimestampTZ" THEN TimestampParams
    ELSE {<<"", "">>}

SupportedTags == SimpleTags \cup {"Decimal75", "TimestampTZ"}

\* the value vectors of the columns of a table
ColumnValues == {<<>>, <<"hello", "world">>, <<"hello", "zkVerify">>}

OwnedColumns ==
    UNION {{OwnedColumnOf(t, p[1], p[2], v) : p \in ParamsOf(t), v \in ColumnValues} :
              t \in SupportedTags \cup {OtherVariant}}

\* OwnedTable: an insertion-ordered map from identifier to column, the
\* columns of one length
IsOwnedTable(t) ==
    /\ \A i, j \in 1..Len(t) : i # j => t[i].id # t[j].id
    /\ \A i \in 1..Len(t) : Len(t[i].col.values) = Len(t[1].col.values)

TableEntries == [id : Identifiers, col : OwnedColumns]

ResultTables ==
    {t \in UNION {[1..n -> TableEntries] : n \in 0..MaxCols} : IsOwnedTable(t)}

\* the plan and the commitments of a bundle
BundlePlans ==
    {<<>>, <<[table_ref |-> "sxt.table", column_id |-> "b", column_type |-> "VarChar"]>>}
BundleCommitments ==
    {<<>>,
     [t \in {"sxt.table"} |->
        [c \in ColumnIds |-> [column_type |-> ExpectedType(c), data |-> "world"]]],
     [t \in {"sxt.table"} |->
        [c \in {"a"} |-> [column_type |-> ExpectedType(c), data |-> "world"]]]}

\* DoryPublicInput
Bundles ==
    [expr : BundlePlans, commitments : BundleCommitments,
     table : ResultTables, verification_hash : VerificationHashes]

NoBundle == [none |-> TRUE]

\* one value written by bincode::serialize_into, or read by
\* bincode::deserialize_from
Tok(k, v) == [k |-> k, v |-> v]

\* lines 117-152: the payload of a column, FALSE for the arm &_
payload_supported(col) == col.tag \in SupportedTags

\* as payload_bytes, the scale of a Decimal75 written before its precision
payload_bytes_scale_first(col) ==
    IF col.tag = "Decimal75"
    THEN <<Tok("precision", col.b), Tok("i8", col.a), Tok("vec", col.values)>>
    ELSE IF col.tag = "TimestampTZ"
    THEN <<Tok("time_unit", col.a), Tok("time_zone", col.b), Tok("vec", col.values)>>
    ELSE <<Tok("vec", col.values)>>

payload_bytes(col) ==
    IF col.tag = "Decimal75"
    THEN <<Tok("precision", col.a), Tok("i8", col.b), Tok("vec", col.values)>>
    ELSE IF col.tag = "TimestampTZ"
    THEN <<Tok("time_unit", col.a), Tok("time_zone", col.b), Tok("vec", col.values)>>
    ELSE <<Tok("vec", col.values)>>

RECURSIVE table_bytes(_, _)
\* lines 113-153: the entries k.. of the table, while no column is
\* unsupported
table_bytes(table, k) ==
    IF k > Len(table) THEN <<>>
    ELSE <<Tok("string", table[k].id), Tok("column_type", column_type(table[k].col))>>
         \o payload_bytes(table[k].col)
         \o table_bytes(table, k + 1)

\* DoryPublicInput::into_bytes, lines 98-158
into_bytes(b) ==
    IF \E k \in 1..Len(b.table) : ~payload_supported(b.table[k].col)
    THEN [ok |-> FALSE, error |-> "InvalidInput"]
    ELSE [ok |-> TRUE,
          bytes |-> <<Tok("plan", b.expr), Tok("commitments", b.commitments),
                      Tok("u32", Len(b.table))>>
                    \o table_bytes(b.table, 1)
                    \o <<Tok("hash", b.verification_hash)>>]

\* bincode::deserialize_from: the value at the cursor is of the kind asked for
Readable(bytes, cursor, kind) ==
    /\ cursor < Len(bytes)
    /\ bytes[cursor + 1].k = kind

\* the failure of a read, and the entry and the cursor after a column entry
DecodeFailed == [ok |-> FALSE]
Decoded(id, col, cursor) == [ok |-> TRUE, id |-> id, col |-> col, cursor |-> cursor]

\* lines 180-221: the payload of a column of type ty, read at the cursor. The
\* parameters of Decimal75 and TimestampTZ are read from the payload.
decode_payload(bytes, cursor, id, ty) ==
    IF ty.tag = "Decimal75"
    THEN IF /\ Readable(bytes, cursor, "precision")
            /\ Readable(bytes, cursor + 1, "i8")
            /\ Readable(bytes, cursor + 2, "vec")
         THEN Decoded(id, OwnedColumnOf("Decimal75", bytes[cursor + 1].v,
                                        bytes[cursor + 2].v, bytes[cursor + 3].v),
                      cursor + 3)
         ELSE DecodeFailed
    ELSE IF ty.tag = "TimestampTZ"
    THEN IF /\ Readable(bytes, cursor, "time_unit")
            /\ Readable(bytes, cursor + 1, "time_zone")
            /\ Readable(bytes, cursor + 2, "vec")
         THEN Decoded(id, OwnedColumnOf("TimestampTZ", bytes[cursor + 1].v,
                                        bytes[cursor + 2].v, bytes[cursor + 3].v),
                      cursor + 3)
         ELSE DecodeFailed
    ELSE IF Readable(bytes, cursor, "vec")
         THEN Decoded(id, OwnedColumnOf(ty.tag, "", "", bytes[cursor + 1].v), cursor + 1)
         ELSE DecodeFailed

\* as decode_column, an unrecognised type tag read as BigInt
decode_column_default(bytes, cursor) ==
    IF ~Readable(bytes, cursor, "string") THEN DecodeFailed
    ELSE IF ~Readable(bytes, cursor + 1, "column_type") THEN DecodeFailed
    ELSE IF bytes[cursor + 1].v \notin Identifiers THEN DecodeFailed
    ELSE IF bytes[cursor + 2].v.tag \notin SupportedTags
    THEN decode_payload(bytes, cursor + 2, bytes[cursor + 1].v,
                        ColumnTypeOf("BigInt", "", ""))
    ELSE decode_payload(bytes, cursor + 2, bytes[cursor + 1].v, bytes[cursor + 2].v)

\* as decode_column, without Identifier::try_new
decode_column_any_identifier(bytes, cursor) ==
    IF ~Readable(bytes, cursor, "string") THEN DecodeFailed
    ELSE IF ~Readable(bytes, cursor + 1, "column_type") THEN DecodeFailed
    ELSE IF bytes[cursor + 2].v.tag \notin SupportedTags THEN DecodeFailed
    ELSE decode_payload(bytes, cursor + 2, bytes[cursor + 1].v, bytes[cursor + 2].v)

\* lines 175-223, the body of the while loop: the identifier string, the
\* column type (a variant index outside ColumnType is an error), the
\* identifier grammar, the payload
decode_column(bytes, cursor) ==
    IF ~Readable(bytes, cursor, "string") THEN DecodeFailed
    ELSE IF ~Readable(bytes, cursor + 1, "column_type") THEN DecodeFailed
    ELSE IF bytes[cursor + 2].v.tag \notin SupportedTags THEN DecodeFailed
    ELSE IF bytes[cursor + 1].v \notin Identifiers THEN DecodeFailed
    ELSE decode_payload(bytes, cursor + 2, bytes[cursor + 1].v, bytes[cursor + 2].v)

\* as loop_guard, without the declared column count
loop_guard_buffer_only(bytes, cursor, vec, declared) == cursor < Len(bytes)

\* line 174: cursor.position() < bytes.len() && vector.len() < table_len
loop_guard(bytes, cursor, vec, declared) ==
    /\ cursor < Len(bytes)
    /\ Len(vec) < declared

\* IndexMap::insert: the value of a key already present is replaced where it
\* stands, a new key is appended
insert(map, e) ==
    IF \E i \in 1..Len(map) : map[i].id = e.id
    THEN [i \in 1..Len(map) |-> IF map[i].id = e.id THEN e ELSE map[i]]
    ELSE Append(map, e)

RECURSIVE from_iter(_, _)
\* IndexMap::from_iter: the entries k.. of vec inserted into map in turn
from_iter(vec, k) ==
    IF k = 0 THEN <<>> ELSE insert(from_iter(vec, k - 1), vec[k])

\* OwnedTable::try_new: the columns have one length
try_new(map) == \A i \in 1..Len(map) : Len(map[i].col.values) = Len(map[1].col.values)

\* as try_from_iter, the entries of the table sorted by identifier
try_from_iter_sorted(vec) ==
    LET map == from_iter(vec, Len(vec))
        sorted == IF Len(map) = 2 /\ map[1].id = "b" THEN <<map[2], map[1]>> ELSE map
    IN  IF try_new(map) THEN [ok |-> TRUE, table |-> sorted] ELSE [ok |-> FALSE]

\* lines 225-226: OwnedTable::try_from_iter(vector), which is
\* OwnedTable::try_new(IndexMap::from_iter(vector))
try_from_iter(vec) ==
    LET map == from_iter(vec, Len(vec))
    IN  IF try_new(map) THEN [ok |-> TRUE, table |-> map] ELSE [ok |-> FALSE]

\* as read_hash, failing unless the hash ends the buffer
read_hash_to_end(bytes, cursor) ==
    IF cursor >= Len(bytes) \/ cursor + 1 # Len(bytes) THEN {DecodeFailed}
    ELSE IF bytes[cursor + 1].k = "hash" THEN {[ok |-> TRUE, hash |-> bytes[cursor + 1].v]}
    ELSE {DecodeFailed} \cup {[ok |-> TRUE, hash |-> h] : h \in VerificationHashes}

\* line 228: 32 bytes read as the verification hash. Bytes that were not
\* written as a hash are read as one when 32 of them remain.
read_hash(bytes, cursor) ==
    IF cursor >= Len(bytes) THEN {DecodeFailed}
    ELSE IF bytes[cursor + 1].k = "hash" THEN {[ok |-> TRUE, hash |-> bytes[cursor + 1].v]}
    ELSE {DecodeFailed} \cup {[ok |-> TRUE, hash |-> h] : h \in VerificationHashes}

\* line 51: .map_err(|_| VerifyError::InvalidInput)
pubs_map_err(error) == "InvalidInput"

RECURSIVE decode_columns(_, _, _, _)
\* lines 174-224: the while loop, from the cursor and the entries read so far
decode_columns(bytes, cursor, vec, declared) ==
    IF ~loop_guard(bytes, cursor, vec, declared)
    THEN [ok |-> TRUE, vector |-> vec, cursor |-> cursor]
    ELSE LET r == decode_column(bytes, cursor)
         IN  IF r.ok
             THEN decode_columns(bytes, r.cursor,
                                 Append(vec, [id |-> r.id, col |-> r.col]), declared)
             ELSE DecodeFailed

\* lines 161-239: the values from_bytes can return on the buffer, the bundle
\* or the failure
from_bytes(bytes) ==
    IF ~(/\ Readable(bytes, 0, "plan")
         /\ Readable(bytes, 1, "commitments")
         /\ Readable(bytes, 2, "u32"))
    THEN {DecodeFailed}
    ELSE LET l == decode_columns(bytes, 3, <<>>, bytes[3].v)
         IN  IF ~l.ok THEN {DecodeFailed}
             ELSE LET t == try_from_iter(l.vector)
                  IN  IF ~t.ok THEN {DecodeFailed}
                      ELSE {IF h.ok
                            THEN [ok |-> TRUE,
                                  bundle |-> [expr |-> bytes[1].v,
                                              commitments |-> bytes[2].v,
                                              table |-> t.table,
                                              verification_hash |-> h.hash]]
                            ELSE DecodeFailed : h \in read_hash(bytes, l.cursor)}

\* ---------------------------------------------------------------- proof.rs
\* the bytes of a proof: whether bincode::deserialize reads a proof from
\* them, and the proof it reads
ProofBuffers ==
    [decodable : {TRUE}, proof : Proofs]
    \cup {[decodable |-> FALSE, proof |-> [valid |-> FALSE, data |-> "world"]]}

\* line 47: .map_err(|_| VerifyError::InvalidProofData)
proof_map_err(error) == "InvalidProofData"

RepeatIdle ==
    /\ calls = <<>>
    /\ heap = <<>>
    /\ new_pc = "idle"
    /\ plan_bytes = <<>>
    /\ stored_expr = 0
    /\ plan_at_new = <<>>
    /\ vk = [max_nu |-> 0, sigma |-> 0]
    /\ call = 0
    /\ given = <<>>
    /\ first_outcome = [kind |-> "none"]
    /\ first_result = None

VerifyIdle ==
    /\ proof_bytes = [decodable |-> FALSE, proof |-> [valid |-> FALSE, data |-> "world"]]
    /\ verify_pc = "idle"
    /\ stages = <<>>
    /\ verify_result = None

PubsIdle ==
    /\ bundle = NoBundle
    /\ into_result = None
    /\ pub_bytes = <<>>
    /\ pub_pc = "idle"
    /\ pub_cursor = 0
    /\ pub_expr = <<>>
    /\ pub_commitments = <<>>
    /\ table_len = 0
    /\ vector = <<>>
    /\ iterations = 0
    /\ pub_table = <<>>
    /\ pub_result = None
    /\ pub_bundle = NoBundle

\* ------------------------------------------------------------------ Init
Init ==
    /\ expr \in Plans
    /\ commitments \in QueryCommitments
    /\ query_data \in QueryData
    /\ proof \in Proofs
    /\ pc = "cross_check"
    /\ column = 1
    /\ passed = {}
    /\ verifier_outcome = [kind |-> "none"]
    /\ compared = FALSE
    /\ result = None
    /\ KeyIdle
    /\ PubsIdle
    /\ VerifyIdle
    /\ RepeatIdle

\* --------------------------------------------------------------- actions
\* as CheckColumn, noting the error without leaving the loop
CheckColumn_no_return ==
    /\ pc = "cross_check"
    /\ column <= Len(expr)
    /\ IF cross_check(expr[column], commitments)
       THEN /\ passed' = passed \cup {column}
            /\ UNCHANGED result
       ELSE /\ result' = "InvalidInput"
            /\ UNCHANGED passed
    /\ column' = column + 1
    /\ UNCHANGED <<inputs, pc, verifier_outcome, compared, outside_engine>>

\* as CheckColumn, taking the checked table out of the commitments
CheckColumn_consume ==
    /\ pc = "cross_check"
    /\ column <= Len(expr)
    /\ IF cross_check(expr[column], commitments)
       THEN /\ passed' = passed \cup {column}
            /\ column' = column + 1
            /\ commitments' = [t \in DOMAIN commitments \ {expr[column].table_ref} |->
                                  commitments[t]]
            /\ UNCHANGED <<pc, result>>
       ELSE /\ result' = "InvalidInput"
            /\ pc' = "done"
            /\ UNCHANGED <<passed, column, commitments>>
    /\ UNCHANGED <<expr, query_data, proof, verifier_outcome, compared, outside_engine>>

\* one iteration of the for loop of lines 51-64
CheckColumn ==
    /\ pc = "cross_check"
    /\ column <= Len(expr)
    /\ IF cross_check(expr[column], commitments)
       THEN /\ passed' = passed \cup {column}
            /\ column' = column + 1
            /\ UNCHANGED <<pc, result>>
       ELSE /\ result' = "InvalidInput"
            /\ pc' = "done"
            /\ UNCHANGED <<passed, column>>
    /\ UNCHANGED <<inputs, verifier_outcome, compared, outside_engine>>

\* as CrossCheckDone, refusing a plan without column references
CrossCheckDone_refuse_empty ==
    /\ pc = "cross_check"
    /\ column > Len(expr)
    /\ IF Len(expr) = 0
       THEN result' = "InvalidInput" /\ pc' = "done"
       ELSE pc' = "delegate" /\ UNCHANGED result
    /\ UNCHANGED <<inputs, column, passed, verifier_outcome, compared, outside_engine>>

\* the iterator is exhausted: fall through to line 66
CrossCheckDone ==
    /\ pc = "cross_check"
    /\ column > Len(expr)
    /\ pc' = "delegate"
    /\ UNCHANGED <<inputs, column, passed, verifier_outcome, compared, result,
                   outside_engine>>

\* lines 66-68, the verifier returns Ok(result)
VerifierAccepts ==
    /\ pc = "delegate"
    /\ \E o \in CryptoVerify(proof, expr, commitments) :
          /\ o.kind = "ok"
          /\ verifier_outcome' = o
    /\ pc' = "compare"
    /\ UNCHANGED <<inputs, column, passed, compared, result, outside_engine>>

\* lines 66-68, the verifier returns Err(_): map_err and ?
VerifierRejects ==
    /\ pc = "delegate"
    /\ \E o \in CryptoVerify(proof, expr, commitments) :
          /\ o.kind = "err"
          /\ verifier_outcome' = o
          /\ result' = map_err(o.error)
    /\ pc' = "done"
    /\ UNCHANGED <<inputs, column, passed, compared, outside_engine>>

\* lines 66-68, the verifier does not return
VerifierCrashes ==
    /\ pc = "delegate"
    /\ \E o \in CryptoVerify(proof, expr, commitments) :
          /\ o.kind = "crash"
          /\ verifier_outcome' = o
    /\ pc' = "crashed"
    /\ UNCHANGED <<inputs, column, passed, compared, result, outside_engine>>

\* lines 70-75
CompareResult ==
    /\ pc = "compare"
    /\ compared' = TRUE
    /\ result' = IF result_equal(verifier_outcome.value, query_data)
                 THEN Ok
                 ELSE "VerificationFailed"
    /\ pc' = "done"
    /\ UNCHANGED <<inputs, column, passed, verifier_outcome, outside_engine>>

Next ==
    \/ CheckColumn
    \/ CrossCheckDone
    \/ VerifierAccepts
    \/ VerifierRejects
    \/ VerifierCrashes
    \/ CompareResult

Spec == Init /\ [][Next]_vars

\* ------------------------------------------- VerificationKey::try_from
InitKey ==
    /\ EngineIdle
    /\ KeyEncoderIdle
    /\ PubsIdle
    /\ VerifyIdle
    /\ RepeatIdle
    /\ key_bytes \in KeyBuffers
    /\ \E sg \in 0..MaxSigma :
          key_content = KeyValues([max_nu |-> key_bytes.max_nu, sigma |-> sg])
    /\ key_read = <<>>
    /\ key_pc = "read"
    /\ key_field = 1
    /\ key_cursor = 0
    /\ key_decompressed = FALSE
    /\ key_result = None

\* as ReadKeyField, with the end of the buffer tested one byte too late
ReadKeyField_late_eof ==
    /\ key_pc = "read"
    /\ key_field <= Len(KeyLayout(key_bytes.max_nu))
    /\ LET f == KeyLayout(key_bytes.max_nu)[key_field] IN
       IF key_cursor + f.size > key_bytes.len + 1
       THEN /\ key_result' = key_map_err("UnexpectedEof")
            /\ key_pc' = "done"
            /\ UNCHANGED <<key_field, key_cursor, key_decompressed, key_read>>
       ELSE IF f.point /\ ~key_bytes.points_valid
       THEN /\ key_result' = key_map_err("InvalidData")
            /\ key_pc' = "done"
            /\ key_decompressed' = TRUE
            /\ UNCHANGED <<key_field, key_cursor, key_read>>
       ELSE /\ key_cursor' = key_cursor + f.size
            /\ key_field' = key_field + 1
            /\ key_decompressed' = (key_decompressed \/ f.point)
            /\ key_read' = Append(key_read, key_content[key_field])
            /\ UNCHANGED <<key_pc, key_result>>
    /\ UNCHANGED <<key_bytes, key_content, outside_key>>

\* line 51, deserialize_compressed_unchecked: read the next field of the key
\* from the buffer; a field that is a point is decompressed
ReadKeyField ==
    /\ key_pc = "read"
    /\ key_field <= Len(KeyLayout(key_bytes.max_nu))
    /\ LET f == KeyLayout(key_bytes.max_nu)[key_field] IN
       IF key_cursor + f.size > key_bytes.len
       THEN \* the buffer ends inside the field
            /\ key_result' = key_map_err("UnexpectedEof")
            /\ key_pc' = "done"
            /\ UNCHANGED <<key_field, key_cursor, key_decompressed, key_read>>
       ELSE IF f.point /\ ~key_bytes.points_valid
       THEN \* the bytes are not a point
            /\ key_result' = key_map_err("InvalidData")
            /\ key_pc' = "done"
            /\ key_decompressed' = TRUE
            /\ UNCHANGED <<key_field, key_cursor, key_read>>
       ELSE /\ key_cursor' = key_cursor + f.size
            /\ key_field' = key_field + 1
            /\ key_decompressed' = (key_decompressed \/ f.point)
            /\ key_read' = Append(key_read, key_content[key_field])
            /\ UNCHANGED <<key_pc, key_result>>
    /\ UNCHANGED <<key_bytes, key_content, outside_key>>

\* line 51: every field has been read, the key is returned; the bytes after
\* the cursor are not looked at
ReturnKey ==
    /\ key_pc = "read"
    /\ key_field > Len(KeyLayout(key_bytes.max_nu))
    /\ key_result' = Ok
    /\ key_pc' = "done"
    /\ UNCHANGED <<key_bytes, key_field, key_cursor, key_decompressed, key_content,
                   key_read, outside_key>>

NextKey ==
    \/ ReadKeyField
    \/ ReturnKey

SpecKey == InitKey /\ [][NextKey]_vars

\* --------------------------------------------- VerificationKey::to_bytes
InitKeyEnc ==
    /\ EngineIdle
    /\ KeyDecoderIdle
    /\ PubsIdle
    /\ VerifyIdle
    /\ RepeatIdle
    /\ enc_key \in VerificationKeys
    /\ enc_pc = "write"
    /\ enc_field = 1
    /\ enc_len = 0
    /\ enc_buf = <<>>

\* as WriteKeyField, only the setup of the key serialized
WriteKeyField_setup_only ==
    /\ enc_pc = "write"
    /\ enc_field <= Len(KeyLayout(enc_key.max_nu))
    /\ IF enc_field < Len(KeyLayout(enc_key.max_nu))
       THEN /\ enc_len' = enc_len + KeyLayout(enc_key.max_nu)[enc_field].size
            /\ enc_buf' = Append(enc_buf, FieldValue(enc_key, enc_field))
       ELSE UNCHANGED <<enc_len, enc_buf>>
    /\ enc_field' = enc_field + 1
    /\ UNCHANGED <<enc_key, enc_pc, outside_enc>>

\* line 76, serialize_compressed: the next field of the key is appended to
\* buf
WriteKeyField ==
    /\ enc_pc = "write"
    /\ enc_field <= Len(KeyLayout(enc_key.max_nu))
    /\ enc_len' = enc_len + KeyLayout(enc_key.max_nu)[enc_field].size
    /\ enc_buf' = Append(enc_buf, FieldValue(enc_key, enc_field))
    /\ enc_field' = enc_field + 1
    /\ UNCHANGED <<enc_key, enc_pc, outside_enc>>

\* line 77: buf is returned
ReturnBytes ==
    /\ enc_pc = "write"
    /\ enc_field > Len(KeyLayout(enc_key.max_nu))
    /\ enc_pc' = "done"
    /\ UNCHANGED <<enc_key, enc_field, enc_len, enc_buf, outside_enc>>

NextKeyEnc ==
    \/ WriteKeyField
    \/ ReturnBytes

SpecKeyEnc == InitKeyEnc /\ [][NextKeyEnc]_vars

\* ------------------------- verification_key.rs: to_bytes, then try_from
\* lines 119-120 of the test: the bytes to_bytes returned are given to
\* try_from; the vectors of the buffer have the length their length word says
TryFromBytes ==
    /\ enc_pc = "done"
    /\ key_pc = "idle"
    /\ key_bytes' = [max_nu |-> enc_buf[1] - 1, len |-> enc_len, points_valid |-> TRUE]
    /\ key_content' = enc_buf
    /\ key_pc' = "read"
    /\ UNCHANGED <<key_field, key_cursor, key_decompressed, key_result, key_read,
                   outside_key>>

NextKeyRoundTrip ==
    \/ WriteKeyField
    \/ ReturnBytes
    \/ TryFromBytes
    \/ ReadKeyField
    \/ ReturnKey

SpecKeyRoundTrip == InitKeyEnc /\ [][NextKeyRoundTrip]_vars

\* ------------------------------------------------- pubs.rs: the transitions
\* the column entries of the buffers given to the decoder: the identifier,
\* the type tag, and the column whose payload follows the tag
WireEntryOf(id, ty, col) == [id |-> id, type |-> ty, col |-> col]

WireColumn(tag, p, v) == OwnedColumnOf(tag, p[1], p[2], v)

\* a column of two values and one of none; payloads whose parameters are
\* not those of the tag; a payload under an unrecognised tag
WireColumns ==
    {[type |-> ColumnTypeOf("BigInt", "", ""),
      col |-> WireColumn("BigInt", <<"", "">>, v)] : v \in {<<>>, <<"hello", "world">>}}
    \cup {[type |-> ColumnTypeOf("Decimal75", "10", "0"),
           col |-> WireColumn("Decimal75", <<"12", "2">>, <<"hello", "world">>)]}
    \cup {[type |-> ColumnTypeOf(UnknownTag, "", ""),
           col |-> WireColumn("BigInt", <<"", "">>, <<"hello", "world">>)]}

\* columns under the identifier a only: another simple type, and payloads
\* whose parameters are those of the tag or, for TimestampTZ, are not
WireColumnsOnce ==
    {[type |-> ColumnTypeOf("VarChar", "", ""),
      col |-> WireColumn("VarChar", <<"", "">>, <<"hello", "world">>)],
     [type |-> ColumnTypeOf("Decimal75", "10", "0"),
      col |-> WireColumn("Decimal75", <<"10", "0">>, <<"hello", "world">>)]}
    \cup {[type |-> ColumnTypeOf("TimestampTZ", "Second", "Utc"),
           col |-> WireColumn("TimestampTZ", p, <<"hello", "world">>)] : p \in TimestampParams}

WireEntries ==
    {WireEntryOf(id, w.type, w.col) : id \in Identifiers, w \in WireColumns}
    \cup {WireEntryOf("a", w.type, w.col) : w \in WireColumnsOnce}
    \cup {WireEntryOf(BadIdentifier, ColumnTypeOf("BigInt", "", ""),
                      WireColumn("BigInt", <<"", "">>, <<"hello", "world">>))}

RECURSIVE wire_bytes(_, _)
wire_bytes(entries, k) ==
    IF k > Len(entries) THEN <<>>
    ELSE <<Tok("string", entries[k].id), Tok("column_type", entries[k].type)>>
         \o payload_bytes(entries[k].col)
         \o wire_bytes(entries, k + 1)

\* a buffer with a declared count and column entries, a verification hash
\* and one more value after it
WireBuffer(plan, comms, declared, entries) ==
    <<plan, comms, Tok("u32", declared)>>
    \o wire_bytes(entries, 1)
    \o <<Tok("hash", "h1"), Tok("junk", "x")>>

GoodHeader == <<Tok("plan", <<>>), Tok("commitments", <<>>)>>

\* the plan or the commitments do not decode
BadHeaders ==
    {<<Tok("junk", "x"), Tok("commitments", <<>>)>>,
     <<Tok("plan", <<>>), Tok("junk", "x")>>}

\* the buffers given to the decoder: up to MaxCols entries, the declared
\* count one below, at or one above their number, cut anywhere; without
\* entries also under a header that does not decode
IsPubBuffer(bytes) ==
    \E es \in UNION {[1..m -> WireEntries] : m \in 0..MaxCols} :
      \E d \in {Len(es) - 1, Len(es), Len(es) + 1} \cap Nat :
        \E h \in {GoodHeader} \cup (IF es = <<>> THEN BadHeaders ELSE {}) :
          \E n \in 0..Len(WireBuffer(h[1], h[2], d, es)) :
            bytes = SubSeq(WireBuffer(h[1], h[2], d, es), 1, n)

InitPubs ==
    /\ EngineIdle
    /\ KeyIdle
    /\ VerifyIdle
    /\ RepeatIdle
    /\ pub_cursor = 0
    /\ pub_expr = <<>>
    /\ pub_commitments = <<>>
    /\ table_len = 0
    /\ vector = <<>>
    /\ iterations = 0
    /\ pub_table = <<>>
    /\ pub_result = None
    /\ pub_bundle = NoBundle
    /\ into_result = None
    /\ \/ /\ bundle \in Bundles
          /\ pub_bytes = <<>>
          /\ pub_pc = "encode"
       \/ /\ bundle = NoBundle
          /\ IsPubBuffer(pub_bytes)
          /\ pub_pc = "header"

\* DoryPublicInput::into_bytes, lines 98-158, and the bytes given to try_from
IntoBytes ==
    /\ pub_pc = "encode"
    /\ LET r == into_bytes(bundle)
       IN  IF r.ok
           THEN /\ pub_bytes' = r.bytes
                /\ into_result' = Ok
                /\ pub_pc' = "header"
           ELSE /\ pub_bytes' = pub_bytes
                /\ into_result' = r.error
                /\ pub_pc' = "done"
    /\ UNCHANGED <<bundle, pub_cursor, pub_expr, pub_commitments, table_len, vector,
                   iterations, pub_table, pub_result, pub_bundle, outside_pubs>>

\* lines 162-172: the plan, the commitments and the declared column count
DecodeHeader ==
    /\ pub_pc = "header"
    /\ IF /\ Readable(pub_bytes, 0, "plan")
          /\ Readable(pub_bytes, 1, "commitments")
          /\ Readable(pub_bytes, 2, "u32")
       THEN /\ pub_expr' = pub_bytes[1].v
            /\ pub_commitments' = pub_bytes[2].v
            /\ table_len' = pub_bytes[3].v
            /\ pub_cursor' = 3
            /\ pub_pc' = "columns"
            /\ pub_result' = pub_result
       ELSE /\ pub_result' = pubs_map_err("bincode")
            /\ pub_pc' = "done"
            /\ UNCHANGED <<pub_expr, pub_commitments, table_len, pub_cursor>>
    /\ UNCHANGED <<bundle, into_result, pub_bytes, vector, iterations, pub_table,
                   pub_bundle, outside_pubs>>

\* lines 174-224: one iteration of the while loop
DecodeColumn ==
    /\ pub_pc = "columns"
    /\ loop_guard(pub_bytes, pub_cursor, vector, table_len)
    /\ iterations' = iterations + 1
    /\ LET r == decode_column(pub_bytes, pub_cursor)
       IN  IF r.ok
           THEN /\ vector' = Append(vector, [id |-> r.id, col |-> r.col])
                /\ pub_cursor' = r.cursor
                /\ UNCHANGED <<pub_pc, pub_result>>
           ELSE /\ pub_result' = pubs_map_err("decode")
                /\ pub_pc' = "done"
                /\ UNCHANGED <<vector, pub_cursor>>
    /\ UNCHANGED <<bundle, into_result, pub_bytes, pub_expr, pub_commitments, table_len,
                   pub_table, pub_bundle, outside_pubs>>

\* lines 225-226: the loop has ended, the table is built from vector
BuildTable ==
    /\ pub_pc = "columns"
    /\ ~loop_guard(pub_bytes, pub_cursor, vector, table_len)
    /\ LET r == try_from_iter(vector)
       IN  IF r.ok
           THEN /\ pub_table' = r.table
                /\ pub_pc' = "hash"
                /\ pub_result' = pub_result
           ELSE /\ pub_result' = pubs_map_err("table")
                /\ pub_pc' = "done"
                /\ pub_table' = pub_table
    /\ UNCHANGED <<bundle, into_result, pub_bytes, pub_cursor, pub_expr, pub_commitments,
                   table_len, vector, iterations, pub_bundle, outside_pubs>>

\* lines 228-238: the verification hash, and the bundle
DecodeHash ==
    /\ pub_pc = "hash"
    /\ \E r \in read_hash(pub_bytes, pub_cursor) :
          IF r.ok
          THEN /\ pub_bundle' = [expr |-> pub_expr, commitments |-> pub_commitments,
                                 table |-> pub_table, verification_hash |-> r.hash]
               /\ pub_result' = Ok
               /\ pub_cursor' = pub_cursor + 1
          ELSE /\ pub_result' = pubs_map_err("hash")
               /\ UNCHANGED <<pub_bundle, pub_cursor>>
    /\ pub_pc' = "done"
    /\ UNCHANGED <<bundle, into_result, pub_bytes, pub_expr, pub_commitments, table_len,
                   vector, iterations, pub_table, outside_pubs>>

NextPubs ==
    \/ IntoBytes
    \/ DecodeHeader
    \/ DecodeColumn
    \/ BuildTable
    \/ DecodeHash

SpecPubs == InitPubs /\ [][NextPubs]_vars

\* ---------------------------------------------------------------- dory.rs
\* the key buffers given to verify: an encoding of a key, whole or cut by one
\* byte, with valid or invalid points
VerifyKeyBuffers ==
    {[max_nu |-> 1, len |-> serialized_size(1) - cut, points_valid |-> v] :
        cut \in {0, 1}, v \in BOOLEAN}

\* the public-input buffers given to verify: the encoding of a bundle, whole
\* or cut
IsVerifyPubs(bytes) ==
    \E b \in [expr : BundlePlans, commitments : BundleCommitments,
               table : OwnedTables, verification_hash : VerificationHashes] :
      \E n \in 0..Len(into_bytes(b).bytes) :
        bytes = SubSeq(into_bytes(b).bytes, 1, n)

InitVerify ==
    /\ EngineIdle
    /\ KeyEncoderIdle
    /\ RepeatIdle
    /\ proof_bytes \in ProofBuffers
    /\ IsVerifyPubs(pub_bytes)
    /\ key_bytes \in VerifyKeyBuffers
    /\ key_content = KeyValues([max_nu |-> key_bytes.max_nu, sigma |-> 1])
    /\ key_read = <<>>
    /\ verify_pc = "proof"
    /\ stages = <<"proof">>
    /\ verify_result = None
    /\ key_pc = "idle"
    /\ key_field = 1
    /\ key_cursor = 0
    /\ key_decompressed = FALSE
    /\ key_result = None
    /\ bundle = NoBundle
    /\ into_result = None
    /\ pub_pc = "idle"
    /\ pub_cursor = 0
    /\ pub_expr = <<>>
    /\ pub_commitments = <<>>
    /\ table_len = 0
    /\ vector = <<>>
    /\ iterations = 0
    /\ pub_table = <<>>
    /\ pub_result = None
    /\ pub_bundle = NoBundle

\* as ProofReturned, going on to the public input after a proof that does
\* not decode
ProofReturned_continue ==
    /\ verify_pc = "proof"
    /\ verify_pc' = "pubs"
    /\ stages' = Append(stages, "pubs")
    /\ pub_pc' = "header"
    /\ verify_result' = IF proof_bytes.decodable THEN verify_result
                        ELSE proof_map_err("bincode")
    /\ UNCHANGED <<proof_bytes, bundle, into_result, pub_bytes, pub_cursor, pub_expr,
                   pub_commitments, table_len, vector, iterations, pub_table,
                   pub_result, pub_bundle, engine_vars, key_vars, enc_vars, repeat_vars, calls, new_vars>>

\* dory.rs line 54, proof.rs lines 46-50: DoryProof::try_from(proof)?, then
\* the call of DoryPublicInput::try_from
ProofReturned ==
    /\ verify_pc = "proof"
    /\ IF proof_bytes.decodable
       THEN /\ verify_pc' = "pubs"
            /\ stages' = Append(stages, "pubs")
            /\ pub_pc' = "header"
            /\ UNCHANGED verify_result
       ELSE /\ verify_result' = proof_map_err("bincode")
            /\ verify_pc' = "done"
            /\ UNCHANGED <<stages, pub_pc>>
    /\ UNCHANGED <<proof_bytes, bundle, into_result, pub_bytes, pub_cursor, pub_expr,
                   pub_commitments, table_len, vector, iterations, pub_table,
                   pub_result, pub_bundle, engine_vars, key_vars, enc_vars, repeat_vars, calls, new_vars>>

\* as PubsReturned, decoding the key also after a public input that does not
\* decode
PubsReturned_continue ==
    /\ verify_pc = "pubs"
    /\ pub_pc = "done"
    /\ verify_pc' = "key"
    /\ stages' = Append(stages, "key")
    /\ key_pc' = "read"
    /\ UNCHANGED verify_result
    /\ UNCHANGED <<proof_bytes, key_bytes, key_field, key_cursor, key_decompressed,
                   key_result, key_content, key_read, engine_vars, enc_vars, repeat_vars, calls, new_vars, pubs_vars>>

\* dory.rs line 55: DoryPublicInput::try_from(public_input)?, then the call
\* of VerificationKey::try_from
PubsReturned ==
    /\ verify_pc = "pubs"
    /\ pub_pc = "done"
    /\ IF pub_result = Ok
       THEN /\ verify_pc' = "key"
            /\ stages' = Append(stages, "key")
            /\ key_pc' = "read"
            /\ UNCHANGED verify_result
       ELSE /\ verify_result' = pub_result
            /\ verify_pc' = "done"
            /\ UNCHANGED <<stages, key_pc>>
    /\ UNCHANGED <<proof_bytes, key_bytes, key_field, key_cursor, key_decompressed,
                   key_result, key_content, key_read, engine_vars, enc_vars, repeat_vars, calls, new_vars, pubs_vars>>

\* dory.rs lines 56-64: VerificationKey::try_from(verification_key)?, then the
\* call of verify_proof on the decoded proof, plan, commitments and query data
KeyReturned ==
    /\ verify_pc = "key"
    /\ key_pc = "done"
    /\ IF key_result = Ok
       THEN /\ verify_pc' = "verify_proof"
            /\ stages' = Append(stages, "verify_proof")
            /\ proof' = proof_bytes.proof
            /\ expr' = pub_bundle.expr
            /\ commitments' = pub_bundle.commitments
            /\ query_data' = [table |-> pub_bundle.table,
                              verification_hash |-> pub_bundle.verification_hash]
            /\ pc' = "cross_check"
            /\ UNCHANGED verify_result
       ELSE /\ verify_result' = key_result
            /\ verify_pc' = "done"
            /\ UNCHANGED <<stages, inputs, pc>>
    /\ UNCHANGED <<proof_bytes, column, passed, verifier_outcome, compared, result,
                   key_vars, enc_vars, repeat_vars, calls, new_vars, pubs_vars>>

\* dory.rs lines 58-64: the value of verify_proof is the value of verify
VerifyReturned ==
    /\ verify_pc = "verify_proof"
    /\ pc = "done"
    /\ verify_result' = result
    /\ verify_pc' = "done"
    /\ UNCHANGED <<proof_bytes, stages, engine_vars, key_vars, enc_vars, repeat_vars, calls, new_vars, pubs_vars>>

NextVerify ==
    \/ ProofReturned
    \/ DecodeHeader
    \/ DecodeColumn
    \/ BuildTable
    \/ DecodeHash
    \/ PubsReturned
    \/ ReadKeyField
    \/ ReturnKey
    \/ KeyReturned
    \/ CheckColumn
    \/ CrossCheckDone
    \/ VerifierAccepts
    \/ VerifierRejects
    \/ VerifierCrashes
    \/ CompareResult
    \/ VerifyReturned

SpecVerify == InitVerify /\ [][NextVerify]_vars

\* ------------------------------------- dory.rs: verify_dory_proof, twice
\* plans of at most one column reference, commitments for sxt.table at most
RepeatPlans == {s \in Plans : Len(s) <= 1}
RepeatCommitments == {c \in QueryCommitments : DOMAIN c \subseteq {"sxt.table"}}

InitRepeat ==
    /\ expr \in RepeatPlans
    /\ commitments \in RepeatCommitments
    /\ query_data \in QueryData
    /\ proof \in Proofs
    /\ vk \in VerificationKeys
    /\ pc = "cross_check"
    /\ column = 1
    /\ passed = {}
    /\ verifier_outcome = [kind |-> "none"]
    /\ compared = FALSE
    /\ result = None
    /\ call = 1
    /\ given = <<expr, commitments, query_data, proof, vk>>
    /\ first_outcome = [kind |-> "none"]
    /\ first_result = None
    /\ calls = <<>>
    /\ heap = <<>>
    /\ new_pc = "idle"
    /\ plan_bytes = <<>>
    /\ stored_expr = 0
    /\ plan_at_new = <<>>
    /\ KeyIdle
    /\ PubsIdle
    /\ VerifyIdle

\* the first call of proof.verify: any of its outcomes
FirstVerifier ==
    /\ call = 1
    /\ \/ VerifierAccepts
       \/ VerifierRejects
       \/ VerifierCrashes

\* proof.verify called again on the same proof, plan, commitments and setup
\* returns what it returned before
SameVerifier ==
    /\ call = 2
    /\ \/ VerifierAccepts
       \/ VerifierRejects
    /\ verifier_outcome' = first_outcome

\* the first call has returned; verify_dory_proof (dory.rs lines 35-47) is
\* called again with the same references
CallAgain ==
    /\ call = 1
    /\ pc = "done"
    /\ first_outcome' = verifier_outcome
    /\ first_result' = result
    /\ call' = 2
    /\ pc' = "cross_check"
    /\ column' = 1
    /\ passed' = {}
    /\ verifier_outcome' = [kind |-> "none"]
    /\ compared' = FALSE
    /\ result' = None
    /\ UNCHANGED <<inputs, vk, given, key_vars, enc_vars, pubs_vars, verify_vars, calls,
                   new_vars>>

NextRepeat ==
    \/ CheckColumn
    \/ CrossCheckDone
    \/ FirstVerifier
    \/ SameVerifier
    \/ CompareResult
    \/ CallAgain

SpecRepeat == InitRepeat /\ [][NextRepeat]_vars

\* ----------------------------- verify.rs: calls running at the same time
\* verify_proof_internal, lines 43-76, as a function of its arguments and of
\* what proof.verify returned
verify_proof_internal(e, c, q, o) ==
    IF \E k \in 1..Len(e) : ~cross_check(e[k], c) THEN "InvalidInput"
    ELSE IF o.kind = "err" THEN map_err(o.error)
    ELSE IF result_equal(o.value, q) THEN Ok
    ELSE "VerificationFailed"

\* the keys shared by the calls
SharedKeys == {k \in VerificationKeys : k.max_nu = k.sigma /\ k.max_nu <= 1}

\* the arguments of a call
CallArguments ==
    [expr : BundlePlans, commitments : BundleCommitments,
     query_data : {[table |-> <<>>, verification_hash |-> "h0"]},
     proof : {p \in Proofs : p.data = "world"}]

\* a call before its first step
NewCall(a) ==
    [expr |-> a.expr, commitments |-> a.commitments, query_data |-> a.query_data,
     proof |-> a.proof, pc |-> "to_dory", setup |-> [max_nu |-> 0, sigma |-> 0],
     column |-> 1, verifier_outcome |-> [kind |-> "none"], result |-> None]

InitConcurrent ==
    /\ EngineIdle
    /\ KeyIdle
    /\ PubsIdle
    /\ VerifyIdle
    /\ vk \in SharedKeys
    /\ heap = <<>>
    /\ new_pc = "idle"
    /\ plan_bytes = <<>>
    /\ stored_expr = 0
    /\ plan_at_new = <<>>
    /\ given = <<vk>>
    /\ call = 0
    /\ first_outcome = [kind |-> "none"]
    /\ first_result = None
    /\ \E as \in [1..MaxCalls -> CallArguments] :
          calls = [i \in 1..MaxCalls |-> NewCall(as[i])]

\* what a step of one call leaves alone
outside_calls == <<engine_vars, key_vars, enc_vars, pubs_vars, verify_vars, vk, call,
                   given, first_outcome, first_result, new_vars>>

\* verify.rs line 103, verification_key.rs lines 85-87: the call borrows the
\* setup and the sigma of the shared key
ToDoryOf(i) ==
    /\ calls[i].pc = "to_dory"
    /\ calls' = [calls EXCEPT ![i].setup = vk, ![i].pc = "cross_check"]
    /\ UNCHANGED outside_calls

\* as CheckColumnOf, the loop index kept in one place for all calls
CheckColumnOf_shared_index(i) ==
    /\ calls[i].pc = "cross_check"
    /\ calls[i].column <= Len(calls[i].expr)
    /\ IF cross_check(calls[i].expr[calls[i].column], calls[i].commitments)
       THEN calls' = [j \in DOMAIN calls |->
                        [calls[j] EXCEPT !.column = calls[i].column + 1]]
       ELSE calls' = [calls EXCEPT ![i].result = "InvalidInput", ![i].pc = "done"]
    /\ UNCHANGED outside_calls

\* verify.rs lines 51-64 in call i: one iteration of the for loop
CheckColumnOf(i) ==
    /\ calls[i].pc = "cross_check"
    /\ calls[i].column <= Len(calls[i].expr)
    /\ IF cross_check(calls[i].expr[calls[i].column], calls[i].commitments)
       THEN calls' = [calls EXCEPT ![i].column = calls[i].column + 1]
       ELSE calls' = [calls EXCEPT ![i].result = "InvalidInput", ![i].pc = "done"]
    /\ UNCHANGED outside_calls

\* the iterator of call i is exhausted
CrossCheckDoneOf(i) ==
    /\ calls[i].pc = "cross_check"
    /\ calls[i].column > Len(calls[i].expr)
    /\ calls' = [calls EXCEPT ![i].pc = "delegate"]
    /\ UNCHANGED outside_calls

\* verify.rs lines 66-68 in call i: proof.verify returns, or does not
VerifierOf(i) ==
    /\ calls[i].pc = "delegate"
    /\ \E o \in CryptoVerify(calls[i].proof, calls[i].expr, calls[i].commitments) :
          calls' = [calls EXCEPT
                      ![i].verifier_outcome = o,
                      ![i].result = IF o.kind = "err" THEN map_err(o.error)
                                    ELSE calls[i].result,
                      ![i].pc = IF o.kind = "ok" THEN "compare"
                                ELSE IF o.kind = "err" THEN "done"
                                ELSE "crashed"]
    /\ UNCHANGED outside_calls

\* verify.rs lines 70-75 in call i
CompareResultOf(i) ==
    /\ calls[i].pc = "compare"
    /\ calls' = [calls EXCEPT
                   ![i].result = IF result_equal(calls[i].verifier_outcome.value,
                                                 calls[i].query_data)
                                 THEN Ok
                                 ELSE "VerificationFailed",
                   ![i].pc = "done"]
    /\ UNCHANGED outside_calls

\* any call takes its next step
NextConcurrent ==
    \E i \in 1..MaxCalls :
        \/ ToDoryOf(i)
        \/ CheckColumnOf(i)
        \/ CrossCheckDoneOf(i)
        \/ VerifierOf(i)
        \/ CompareResultOf(i)

SpecConcurrent == InitConcurrent /\ [][NextConcurrent]_vars

\* ------------------------------------------ pubs.rs: DoryPublicInput::new
\* the addresses of the caller's plan and of the plan new builds
CallerPlan == 1
BundlePlan == 2

\* a plan object: dropped or not, and its column references
Live(plan) == [live |-> TRUE, plan |-> plan]
Dropped == [live |-> FALSE, plan |-> <<>>]

RECURSIVE serialize_refs(_, _)
\* the column references k.. of a plan as bincode writes them
serialize_refs(plan, k) ==
    IF k > Len(plan) THEN <<>>
    ELSE <<Tok("string", plan[k].table_ref), Tok("string", plan[k].column_id),
           Tok("type", plan[k].column_type)>>
         \o serialize_refs(plan, k + 1)

\* line 73: bincode::serialize(&expr)
serialize(plan) == <<Tok("u64", Len(plan))>> \o serialize_refs(plan, 1)

\* line 74: bincode::deserialize(&bytes), the references read one by one
deserialize(bytes) ==
    [k \in 1..bytes[1].v |->
        [table_ref |-> bytes[3 * k - 1].v, column_id |-> bytes[3 * k].v,
         column_type |-> bytes[3 * k + 1].v]]

InitNew ==
    /\ EngineIdle
    /\ KeyIdle
    /\ PubsIdle
    /\ VerifyIdle
    /\ calls = <<>>
    /\ vk = [max_nu |-> 0, sigma |-> 0]
    /\ call = 0
    /\ given = <<>>
    /\ first_outcome = [kind |-> "none"]
    /\ first_result = None
    /\ \E plan \in Plans :
          /\ heap = <<Live(plan)>>
          /\ plan_at_new = plan
    /\ new_pc = "serialize"
    /\ plan_bytes = <<>>
    /\ stored_expr = 0

outside_new == <<engine_vars, key_vars, enc_vars, pubs_vars, verify_vars, repeat_vars,
                 calls>>

\* line 73: the caller's plan is read through the reference and serialized
SerializePlan ==
    /\ new_pc = "serialize"
    /\ plan_bytes' = serialize(heap[CallerPlan].plan)
    /\ new_pc' = "deserialize"
    /\ UNCHANGED <<heap, stored_expr, plan_at_new, outside_new>>

\* as BuildBundle, the bundle keeping the caller's plan object
BuildBundle_alias ==
    /\ new_pc = "deserialize"
    /\ heap' = Append(heap, Live(deserialize(plan_bytes)))
    /\ stored_expr' = CallerPlan
    /\ new_pc' = "built"
    /\ UNCHANGED <<plan_bytes, plan_at_new, outside_new>>

\* lines 74-79: a new plan is built from the bytes and moved into the bundle
BuildBundle ==
    /\ new_pc = "deserialize"
    /\ heap' = Append(heap, Live(deserialize(plan_bytes)))
    /\ stored_expr' = BundlePlan
    /\ new_pc' = "built"
    /\ UNCHANGED <<plan_bytes, plan_at_new, outside_new>>

\* the caller, holding its plan again after new has returned, replaces it
CallerMutates ==
    /\ new_pc = "built"
    /\ heap[CallerPlan].live
    /\ \E plan \in Plans :
          /\ plan # heap[CallerPlan].plan
          /\ Len(plan) <= 1
          /\ heap' = [heap EXCEPT ![CallerPlan] = Live(plan)]
    /\ UNCHANGED <<new_pc, plan_bytes, stored_expr, plan_at_new, outside_new>>

\* the caller drops its plan
CallerDrops ==
    /\ new_pc = "built"
    /\ heap[CallerPlan].live
    /\ heap' = [heap EXCEPT ![CallerPlan] = Dropped]
    /\ UNCHANGED <<new_pc, plan_bytes, stored_expr, plan_at_new, outside_new>>

NextNew ==
    \/ SerializePlan
    \/ BuildBundle
    \/ CallerMutates
    \/ CallerDrops

SpecNew == InitNew /\ [][NextNew]_vars

TypeOK ==
    /\ expr \in Plans
    /\ pc \in {"idle", "cross_check", "delegate", "compare", "done", "crashed"}
    /\ key_pc \in {"idle", "read", "done"}
    /\ key_result \in {None, Ok, "InvalidVerificationKey"}
    /\ result \in VerifyError \cup {None, Ok}
    /\ compared \in BOOLEAN

\* ----------------------------------------------------- claims, the engine
\* the reference has an entry for its table in the map
TableKnown(col) == col.table_ref \in DOMAIN commitments

\* the reference has a commitment under its (table, column) key
Committed(col) ==
    /\ col.table_ref \in DOMAIN commitments
    /\ col.column_id \in DOMAIN commitments[col.table_ref]

\* the commitment of the reference carries a type other than the expected one
TypeMismatch(col) ==
    /\ Committed(col)
    /\ commitments[col.table_ref][col.column_id].column_type # col.column_type

Refs == {expr[k] : k \in 1..Len(expr)}

\* the cross-check as verify_proof_internal performs it, over the whole plan
CrossCheckHolds == \A col \in Refs : TableKnown(col) /\ ~TypeMismatch(col)

VerifierInvoked == verifier_outcome.kind # "none"
VerifierAccepted == verifier_outcome.kind = "ok"

C2_UncommittedIsInvalidInput ==
    (pc \in {"done", "crashed"} /\ \E col \in Refs : ~Committed(col))
        => result = "InvalidInput"

C4_TypeMismatchIsInvalidInput ==
    (\E col \in Refs : TypeMismatch(col)) =>
        /\ pc \in {"cross_check", "done"}
        /\ pc = "done" => result = "InvalidInput"

\* every table is known, the second reference has the wrong type
C4_Witness ==
    /\ pc = "done"
    /\ result = "InvalidInput"
    /\ Len(expr) = 2
    /\ \A col \in Refs : TableKnown(col)
    /\ ~TypeMismatch(expr[1])
    /\ TypeMismatch(expr[2])

\* C5: when the cross-check holds and the verifier accepted, claimed query
\* data that differs from the computed result in the table or in the hash
\* gives VerificationFailed.
C5_TamperedResultFails ==
    ( /\ pc = "done"
      /\ CrossCheckHolds
      /\ VerifierAccepted
      /\ \/ verifier_outcome.value.table # query_data.table
         \/ verifier_outcome.value.verification_hash # query_data.verification_hash )
        => result = "VerificationFailed"

\* the table is the computed one, only the hash differs
C5_Witness ==
    /\ pc = "done"
    /\ result = "VerificationFailed"
    /\ VerifierAccepted
    /\ verifier_outcome.value.table = query_data.table
    /\ verifier_outcome.value.table # <<>>
    /\ verifier_outcome.value.verification_hash # query_data.verification_hash

\* C6: a failure returned by the external verifier becomes
\* VerificationFailed, and the comparison of the results is not made.
C6_VerifierFailureMapped ==
    verifier_outcome.kind = "err" =>
        /\ pc = "done"
        /\ result = "VerificationFailed"
        /\ ~compared

C6_Witness ==
    /\ pc = "done"
    /\ verifier_outcome.kind = "err"
    /\ verifier_outcome.error = "Overflow"
    /\ Len(expr) > 0
    /\ CrossCheckHolds

\* C7: a plan with a column reference whose table has no entry in the
\* commitment map returns InvalidInput and never reaches the delegation.
C7_UnknownTableIsInvalidInput ==
    (\E col \in Refs : ~TableKnown(col)) =>
        /\ pc \in {"cross_check", "done"}
        /\ ~VerifierInvoked
        /\ pc = "done" => result = "InvalidInput"

\* commitments of the alien accessor: only the other table is in the map
C7_Witness ==
    /\ pc = "done"
    /\ result = "InvalidInput"
    /\ DOMAIN commitments = {"sxt.table2"}
    /\ DOMAIN commitments["sxt.table2"] = ColumnIds
    /\ Len(expr) = 2
    /\ \A col \in Refs : col.table_ref = "sxt.table"

\* C8: with no column reference and an empty commitment map the cross-check
\* raises no error, and verification returns Ok when the verifier accepted
\* and the computed result equals the claimed one.
C8_VacuousCrossCheck ==
    (Len(expr) = 0 /\ DOMAIN commitments = {}) =>
        /\ result # "InvalidInput"
        /\ (pc = "done" /\ VerifierAccepted /\ verifier_outcome.value = query_data)
              => result = Ok

C8_Witness ==
    /\ Len(expr) = 0
    /\ DOMAIN commitments = {}
    /\ pc = "done"
    /\ result = Ok
    /\ query_data.table = <<>>

\* C9: a valid proof checked against commitments of the same tables, columns
\* and types, one of which binds other column content than the proof, passes
\* the cross-check, is rejected by the verifier, and gives VerificationFailed.
AlteredData ==
    /\ proof.valid
    /\ Len(expr) > 0
    /\ \A col \in Refs : Committed(col) /\ ~TypeMismatch(col)
    /\ \E col \in Refs : commitments[col.table_ref][col.column_id].data # proof.data

C9_AlteredDataRejected ==
    AlteredData =>
        /\ pc # "crashed"
        /\ result # Ok
        /\ pc = "done" =>
              /\ passed = 1..Len(expr)
              /\ verifier_outcome.kind = "err"
              /\ result = "VerificationFailed"

\* the plan of the test query: columns a and b of sxt.table, b altered
C9_Witness ==
    /\ AlteredData
    /\ pc = "done"
    /\ result = "VerificationFailed"
    /\ Refs = {[table_ref |-> "sxt.table", column_id |-> c, column_type |-> ExpectedType(c)] :
                   c \in ColumnIds}
    /\ commitments["sxt.table"]["a"].data = proof.data
    /\ commitments["sxt.table"]["b"].data # proof.data

\* ------------------------------------------------------- claims, the key
\* C10: a buffer whose length is not the serialized size of its sizing
\* parameter gives InvalidVerificationKey, and no point is decompressed
\* from such a buffer.
C10_KeyLengthGate ==
    key_bytes.len # serialized_size(key_bytes.max_nu) =>
        /\ ~key_decompressed
        /\ key_pc = "done" => key_result = "InvalidVerificationKey"

\* C11: a key encoding cut by one or more bytes at its end is refused with
\* InvalidVerificationKey; no key is returned for it.
C11_TruncatedKeyRefused ==
    key_bytes.len < serialized_size(key_bytes.max_nu) =>
        /\ key_result # Ok
        /\ key_pc = "done" => key_result = "InvalidVerificationKey"

\* the encoding with valid points, cut by one byte
C11_Witness ==
    /\ key_bytes.len = serialized_size(key_bytes.max_nu) - 1
    /\ key_bytes.points_valid
    /\ key_bytes.max_nu = MaxNu
    /\ key_pc = "done"
    /\ key_result = "InvalidVerificationKey"

\* C12: the bytes to_bytes returns for a key of sizing parameter max_nu are
\* serialized_size(max_nu) many, whatever the sigma of the key.
C12_ToBytesLength ==
    enc_pc = "done" => enc_len = serialized_size(enc_key.max_nu)

C12_Witness ==
    /\ enc_pc = "done"
    /\ enc_key.max_nu = MaxNu
    /\ enc_key.sigma = MaxSigma
    /\ enc_len = serialized_size(MaxNu)

\* ---------------------------------------------------------- pubs.rs claims
\* two of the decoded column entries carry one identifier
DuplicateIdentifier ==
    \E i, j \in 1..Len(vector) : i # j /\ vector[i].id = vector[j].id

\* the decoder is past the construction of the table
TableBuilt == pub_pc = "hash" \/ (pub_pc = "done" /\ pub_result = Ok)

\* C13: an encoding in which two column entries carry the same identifier is
\* refused: no table is built from it, and no bundle is returned.
C13_DuplicateRejected == DuplicateIdentifier => ~TableBuilt

\* two of the decoded column entries have different element counts
UnequalLengths ==
    \E i, j \in 1..Len(vector) : Len(vector[i].col.values) # Len(vector[j].col.values)

\* C14: an encoding in which two columns have different element counts is
\* refused: no table is built from it, and the decode ends in InvalidInput.
C14_UnequalLengthsRejected ==
    UnequalLengths =>
        /\ ~TableBuilt
        /\ pub_pc = "done" => pub_result = "InvalidInput"

\* the buffer being decoded was written by into_bytes from bundle
Encoded == into_result = Ok

\* C15: the table decoded from the encoding of a table has as many columns,
\* and their identifiers in the same order, sorted or not.
C15_OrderPreserved ==
    Encoded =>
        /\ pub_pc = "done" => pub_result = Ok
        /\ TableBuilt =>
              /\ Len(pub_table) = Len(bundle.table)
              /\ \A i \in 1..Len(pub_table) : pub_table[i].id = bundle.table[i].id

\* a table with b before a has been encoded and decoded
C15_Witness ==
    /\ Encoded
    /\ pub_pc = "done"
    /\ pub_result = Ok
    /\ Len(bundle.table) = 2
    /\ bundle.table[1].id = "b"
    /\ bundle.table[2].id = "a"
    /\ pub_bundle.table[1].id = "b"
    /\ pub_bundle.table[2].id = "a"

\* C16: a bundle whose columns are of the nine supported variants is encoded,
\* and the decode of its encoding succeeds with an equal bundle: plan,
\* commitments, table (columns, types with their parameters, values) and
\* verification hash.
C16_RoundTrip ==
    /\ into_result = "InvalidInput" =>
          \E k \in 1..Len(bundle.table) : bundle.table[k].col.tag \notin SupportedTags
    /\ (Encoded /\ pub_pc = "done") =>
          /\ pub_result = Ok
          /\ pub_bundle = bundle

\* a bundle with a plan, commitments, a Decimal75 and a TimestampTZ column of
\* two values has made the round trip
C16_Witness ==
    /\ Encoded
    /\ pub_pc = "done"
    /\ pub_result = Ok
    /\ pub_bundle = bundle
    /\ bundle.expr # <<>>
    /\ bundle.commitments # <<>>
    /\ Len(bundle.table) = 2
    /\ bundle.table[1].col.tag = "Decimal75"
    /\ bundle.table[1].col.a = "12"
    /\ bundle.table[2].col.tag = "TimestampTZ"
    /\ bundle.table[2].col.b = "FixedOffset"
    /\ Len(bundle.table[1].col.values) = 2

\* the values of the buffer an iteration of the loop consumes at least: the
\* identifier, the type, the payload
MinEntry == 3

\* C17: the column loop runs at most the declared count of times and at most
\* as often as the buffer has entries; with the declared count reached it does
\* not run again though values remain, and what comes next in the buffer is
\* read as the verification hash.
C17_DeclaredCountBoundsLoop ==
    /\ iterations <= table_len
    /\ Len(vector) <= iterations
    /\ iterations > 0 => 3 + MinEntry * (iterations - 1) < Len(pub_bytes)
    /\ (pub_pc = "columns" /\ Len(vector) = table_len) => ~ENABLED DecodeColumn
    /\ pub_result = Ok =>
          /\ Len(pub_bundle.table) <= table_len
          /\ pub_cursor <= Len(pub_bytes)
          /\ pub_bytes[pub_cursor].k = "hash" =>
                pub_bundle.verification_hash = pub_bytes[pub_cursor].v

\* one column declared, two entries in the buffer: the loop ran once, and the
\* start of the second entry was read as the verification hash
C17_Witness ==
    /\ pub_pc = "done"
    /\ pub_result = Ok
    /\ table_len = 1
    /\ iterations = 1
    /\ Len(pub_bundle.table) = 1
    /\ pub_cursor < Len(pub_bytes)
    /\ pub_bytes[pub_cursor].k = "string"

\* the header of the buffer does not decode: the plan, the commitments or the
\* column count
HeaderFails ==
    \/ ~Readable(pub_bytes, 0, "plan")
    \/ ~Readable(pub_bytes, 1, "commitments")
    \/ ~Readable(pub_bytes, 2, "u32")

\* an iteration of the column loop did not push its entry: the identifier,
\* the type tag or the payload did not decode
ColumnFails == Len(vector) < iterations

\* C18: the decode of a public-input buffer ends in Ok with a whole bundle or
\* in InvalidInput with none: a header, an identifier, a type tag, a
\* payload, a table construction or a hash that fails gives InvalidInput, and
\* every identifier of a returned bundle satisfies the grammar.
C18_AllOrNothing ==
    /\ pub_result \in {None, Ok, "InvalidInput"}
    /\ pub_result # Ok => pub_bundle = NoBundle
    /\ pub_pc = "done" /\ into_result # "InvalidInput" => pub_result # None
    /\ pub_pc \notin {"idle", "encode"} /\ HeaderFails => pub_result # Ok
    /\ ColumnFails => pub_pc = "done" /\ pub_result = "InvalidInput"
    /\ (pub_pc \in {"hash", "done"} /\ ~try_from_iter(vector).ok) => pub_result = "InvalidInput"
    /\ pub_result = Ok =>
          /\ pub_pc = "done"
          /\ pub_bundle \in [expr : {pub_expr}, commitments : {pub_commitments},
                              table : {pub_table}, verification_hash : VerificationHashes]
          /\ pub_table = try_from_iter(vector).table
          /\ \A i \in 1..Len(pub_table) : pub_table[i].id \in Identifiers

\* a buffer whose second identifier does not satisfy the grammar was refused
\* after its first column had been decoded
C18_Witness ==
    /\ pub_pc = "done"
    /\ pub_result = "InvalidInput"
    /\ pub_bundle = NoBundle
    /\ Len(vector) = 1
    /\ iterations = 2
    /\ pub_bytes[pub_cursor + 1] = Tok("string", BadIdentifier)
    /\ Readable(pub_bytes, pub_cursor + 1, "column_type")
    /\ Readable(pub_bytes, pub_cursor + 2, "vec")

\* the column entry at the cursor carries a type tag that is no ColumnType
UnknownTagAtCursor ==
    /\ Readable(pub_bytes, pub_cursor, "string")
    /\ Readable(pub_bytes, pub_cursor + 1, "column_type")
    /\ pub_bytes[pub_cursor + 2].v.tag \notin SupportedTags

\* into_bytes has returned for a bundle with a column outside the nine variants
UnsupportedColumn ==
    /\ into_result # None
    /\ \E k \in 1..Len(bundle.table) : bundle.table[k].col.tag \notin SupportedTags

\* C19: a column entry with an unrecognised type tag ends the decode in an
\* error, its payload is never read under another variant; a table with a
\* column outside the nine variants is encoded to InvalidInput and no bytes.
C19_TagsFailClosed ==
    /\ \A p \in 1..pub_cursor :
          pub_bytes[p].k = "column_type" => pub_bytes[p].v.tag \in SupportedTags
    /\ \A i \in 1..Len(vector) : vector[i].col.tag \in SupportedTags
    /\ (UnknownTagAtCursor /\ ColumnFails) =>
          /\ pub_result = "InvalidInput"
          /\ pub_bundle = NoBundle
    /\ (pub_pc = "columns" /\ UnknownTagAtCursor /\ Len(vector) < table_len) =>
          ~ENABLED BuildTable
    /\ UnsupportedColumn =>
          /\ into_result = "InvalidInput"
          /\ pub_bytes = <<>>
          /\ pub_pc = "done"
          /\ pub_result = None

\* the second entry of a buffer carried an unrecognised tag before a payload
\* that a BigInt column could be read from, and the decode was refused
C19_Witness ==
    /\ pub_pc = "done"
    /\ UnknownTagAtCursor
    /\ Readable(pub_bytes, pub_cursor + 2, "vec")
    /\ Len(vector) = 1
    /\ iterations = 2
    /\ pub_result = "InvalidInput"

\* ---------------------------------------------------------- dory.rs claims
\* the steps of verify in the order of lines 54-58
VerifySteps == <<"proof", "pubs", "key", "verify_proof">>

\* C20: verify decodes the proof, the public input and the key in this order,
\* each once; a proof that does not decode gives InvalidProofData, a public
\* input that does not decode InvalidInput, a key that does not decode
\* InvalidVerificationKey, and after a failing step no later step is entered.
C20_DecodeStageErrors ==
    /\ \E n \in 1..Len(VerifySteps) : stages = SubSeq(VerifySteps, 1, n)
    /\ verify_pc # "done" => verify_result = None
    /\ ~proof_bytes.decodable =>
          /\ stages = <<"proof">>
          /\ pub_pc = "idle" /\ key_pc = "idle" /\ pc = "idle"
          /\ verify_pc = "done" => verify_result = "InvalidProofData"
    /\ (pub_pc = "done" /\ pub_result # Ok) =>
          /\ stages = <<"proof", "pubs">>
          /\ key_pc = "idle" /\ pc = "idle"
          /\ verify_pc = "done" => verify_result = "InvalidInput"
    /\ (key_pc = "done" /\ key_result # Ok) =>
          /\ stages = <<"proof", "pubs", "key">>
          /\ pc = "idle"
          /\ verify_pc = "done" => verify_result = "InvalidVerificationKey"
    /\ verify_result = "InvalidProofData" => ~proof_bytes.decodable
    /\ verify_result = "InvalidVerificationKey" => key_result = "InvalidVerificationKey"

\* the proof and the public input decoded, the key cut by one byte did not:
\* verify returned InvalidVerificationKey without calling verify_proof
C20_Witness ==
    /\ verify_pc = "done"
    /\ proof_bytes.decodable
    /\ pub_result = Ok
    /\ Len(pub_bundle.table) = 1
    /\ key_bytes.len = serialized_size(key_bytes.max_nu) - 1
    /\ key_result = "InvalidVerificationKey"
    /\ verify_result = "InvalidVerificationKey"
    /\ pc = "idle"

C22_ConcurrentCallsIndependent ==
    \A i \in DOMAIN calls :
        /\ given = <<vk>>
        /\ calls[i].pc # "to_dory" => calls[i].setup = vk
        /\ calls[i].column <= Len(calls[i].expr) + 1
        /\ calls[i].verifier_outcome.kind # "none" =>
              calls[i].verifier_outcome \in
                  CryptoVerify(calls[i].proof, calls[i].expr, calls[i].commitments)
        /\ calls[i].pc = "done" =>
              calls[i].result = verify_proof_internal(calls[i].expr, calls[i].commitments,
                                                      calls[i].query_data,
                                                      calls[i].verifier_outcome)

\* two calls on one key have returned, the first Ok on a plan with a column
\* reference and the second InvalidInput
C22_Witness ==
    /\ calls # <<>>
    /\ calls[1].pc = "done"
    /\ calls[1].result = Ok
    /\ Len(calls[1].expr) = 1
    /\ calls[2].pc = "done"
    /\ calls[2].result = "InvalidInput"
    /\ vk.sigma = 1

\* ------------------------------------------------- DoryPublicInput::new
\* C23: the plan new stores is a plan object of its own, equal to the
\* caller's plan as it was at the call; new leaves the caller's plan as it
\* was, and what the caller does to its plan afterwards does not reach the
\* plan of the bundle.
C23_StoredPlanIsOwnCopy ==
    /\ [](new_pc \in {"serialize", "deserialize"} => heap[CallerPlan] = Live(plan_at_new))
    /\ [](new_pc = "built" =>
            /\ stored_expr # CallerPlan
            /\ heap[stored_expr] = Live(plan_at_new))
    /\ [][new_pc # "built" => heap'[CallerPlan] = heap[CallerPlan]]_vars

\* the caller dropped its plan of two column references after construction,
\* the bundle holds it still
C23_Witness ==
    /\ new_pc = "built"
    /\ Len(plan_at_new) = 2
    /\ heap[CallerPlan] = Dropped
    /\ heap[stored_expr] = Live(plan_at_new)

\* ---------------------------------------------------- key round trip
\* C24: the bytes to_bytes returns for a key decode to a key: try_from
\* succeeds, and the decoded key has the setup and the sigma of the original.
C24_KeyRoundTrip ==
    key_pc = "done" =>
        /\ key_result = Ok
        /\ DecodedKey(key_read).setup = VerifierSetupOf(enc_key)
        /\ DecodedKey(key_read).sigma = enc_key.sigma

\* a key of the largest sizing parameter and sigma has made the round trip
C24_Witness ==
    /\ key_pc = "done"
    /\ key_result = Ok
    /\ enc_key = [max_nu |-> MaxNu, sigma |-> MaxSigma]
    /\ Len(key_read) = Len(KeyLayout(MaxNu))
    /\ DecodedKey(key_read).sigma = MaxSigma

\* ------------------------------------------------- pubs.rs, more claims
RECURSIVE EntryStart(_)
\* the cursor at which the i-th iteration of the column loop started
EntryStart(i) ==
    IF i = 1 THEN 3 ELSE decode_column(pub_bytes, EntryStart(i - 1)).cursor

\* the type tag read for the i-th decoded column
TagRead(i) == pub_bytes[EntryStart(i) + 2].v

\* C25: in an accepted buffer every decoded column has the column type that
\* was read as its tag, with the precision and scale of a Decimal75 and the
\* unit and zone of a TimestampTZ.
C25_DecodedTypeIsTag ==
    pub_result = Ok =>
        \A i \in 1..Len(vector) : column_type(vector[i].col) = TagRead(i)

\* ------------------------------------------------- dory.rs, more claims
\* the step of verify that follows a step, by lines 54-58
StepAfter(step) ==
    CASE step = "proof" -> "pubs"
      [] step = "pubs" -> "key"
      [] step = "key" -> "verify_proof"
      [] OTHER -> "done"

\* the step has returned an error: the proof, the public input or the key did
\* not decode
StepFailed(step) ==
    CASE step = "proof" -> ~proof_bytes.decodable
      [] step = "pubs" -> pub_result # Ok
      [] step = "key" -> key_result # Ok
      [] OTHER -> FALSE

\* the error of a step that did not decode its input
StepError(step) ==
    CASE step = "proof" -> "InvalidProofData"
      [] step = "pubs" -> "InvalidInput"
      [] OTHER -> "InvalidVerificationKey"

\* C26: verify decodes the proof, then the public input, then the key. While
\* an input is being decoded the later ones have not been looked at; when a
\* step fails verify returns the error of that step at once, whatever the
\* later buffers hold; the engine runs only after the three have decoded.
C26_FirstFailureDecides ==
    /\ [](verify_pc = "proof" => pub_pc = "idle" /\ pub_cursor = 0)
    /\ [](verify_pc \in {"proof", "pubs"} => key_pc = "idle" /\ key_cursor = 0)
    /\ [](pc # "idle" => /\ proof_bytes.decodable
                         /\ pub_result = Ok
                         /\ key_result = Ok)
    /\ [][verify_pc' # verify_pc =>
            IF StepFailed(verify_pc)
            THEN verify_pc' = "done" /\ verify_result' = StepError(verify_pc)
            ELSE verify_pc' = StepAfter(verify_pc)]_vars

\* the proof decoded, the public input did not, and the key is cut as well:
\* verify returned InvalidInput and the key was never read
C26_Witness ==
    /\ verify_pc = "done"
    /\ proof_bytes.decodable
    /\ pub_pc = "done"
    /\ pub_result = "InvalidInput"
    /\ key_bytes.len < serialized_size(key_bytes.max_nu)
    /\ key_pc = "idle"
    /\ key_cursor = 0
    /\ verify_result = "InvalidInput"

\* ------------------------------------------------ the engine, more claims
\* C27: InvalidInput goes before VerificationFailed. A call in which the
\* cross-check fails for some column reference returns InvalidInput for every
\* proof and every claimed query data, without asking the verifier; a call
\* that returns VerificationFailed has passed the cross-check for every
\* column reference and has asked the verifier.
C27_InvalidInputFirst ==
    pc = "done" =>
        /\ ~CrossCheckHolds =>
              /\ result = "InvalidInput"
              /\ ~VerifierInvoked
              /\ ~compared
        /\ result = "VerificationFailed" =>
              /\ CrossCheckHolds
              /\ passed = 1..Len(expr)
              /\ VerifierInvoked

\* the first reference passed, the second has the wrong type, and the proof
\* is not a proof either: the call returned InvalidInput
C27_Witness ==
    /\ pc = "done"
    /\ Len(expr) = 2
    /\ passed = {1}
    /\ TypeMismatch(expr[2])
    /\ ~proof.valid
    /\ query_data.table # <<>>
    /\ ~VerifierInvoked
    /\ result = "InvalidInput"

\* ---------------------------------------------- pubs.rs, trailing bytes
\* what the decoder has returned on pub_bytes
Returned ==
    IF pub_result = Ok THEN [ok |-> TRUE, bundle |-> pub_bundle] ELSE DecodeFailed

\* C28: from_bytes does not ask that the buffer be consumed. The decoder
\* returns on pub_bytes what from_bytes gives, and every bundle that a
\* beginning of pub_bytes decodes to is a bundle pub_bytes, that beginning
\* followed by more bytes, decodes to.
C28_TrailingBytesIgnored ==
    pub_pc = "done" =>
        /\ Returned \in from_bytes(pub_bytes)
        /\ \A n \in 0..Len(pub_bytes) :
              \A r \in from_bytes(SubSeq(pub_bytes, 1, n)) :
                  r.ok => r \in from_bytes(pub_bytes)

\* a buffer of two columns with a token behind the hash has decoded to the
\* bundle that the buffer without the token decodes to
C28_Witness ==
    /\ pub_pc = "done"
    /\ pub_result = Ok
    /\ Len(pub_bundle.table) = 2
    /\ pub_cursor < Len(pub_bytes)
    /\ pub_bytes[pub_cursor].k = "hash"
    /\ from_bytes(SubSeq(pub_bytes, 1, pub_cursor)) = {[ok |-> TRUE, bundle |-> pub_bundle]}


====
